---- MODULE Spec2Model ----
(***************************************************************************)
(* Model of the session-scoped LLM proxy:                                  *)
(*   src/src/routes/gemini_improved.py  chat route, conversation store,    *)
(*                                      upstream client with retry/backoff *)
(*   src/src/routes/translation.py      translate route, translation       *)
(*                                      store, single-shot upstream client *)
(*                                                                         *)
(* Text values (Python str) are sequences of tokens: a token is either a   *)
(* single character or a literal chunk of a message, so concatenation is   *)
(* \o and str.strip() removes leading and trailing " " tokens.             *)
(***************************************************************************)
EXTENDS Integers, Sequences, FiniteSets, TLC

VARIABLES
    \* ---- one upstream client call (locals of the client function) ----
    path,          \* "chat": call_manus_llm_api_with_retry, "translation": call_manus_llm_translation_api
    max_retries,   \* parameter max_retries
    base_delay,    \* parameter base_delay
    attempt,       \* loop variable of `for attempt in range(max_retries)`
    pc,            \* "loop" | "returned" | "raised"
    posted,        \* outcomes of the requests.post calls made so far, in order
    slept,         \* arguments of the time.sleep calls made so far, in order
    result,        \* the returned string once pc = "returned"
    escaped,       \* the exception class that left the function once pc = "raised"
    \* ---- the web application under sequential request handling ----
    conversations,        \* dict conversations: session id -> list of messages
    translation_history,  \* dict translation_history: session id -> list of translations
    cookie,               \* per client: session['session_id'] of its cookie, or NoSession
    now,                  \* the clock read by datetime.now(): one tick per reading
    served,               \* number of requests handled so far
    request,              \* the last request handled
    reply,                \* the HTTP response to the last request
    upstream,             \* outcomes of the requests.post calls made while handling the last request
    payload,              \* the `contents` handed to the upstream client while handling the last request
    \* ---- overlapping chat requests of one session in a multi-threaded host ----
    threads,              \* per request thread: its position in chat_with_context and its locals
    appended,             \* every message passed to list.append so far, in order
    \* ---- one call of build_conversation_context ----
    ctx_history,          \* argument history
    ctx_text,             \* argument current_text
    ctx_image,            \* argument current_image
    ctx_contents,         \* the list `contents` the call returned
    ctx_pc                \* "idle" | "call" | "returned"

clientVars == <<path, max_retries, base_delay, attempt, pc, posted, slept, result, escaped>>

appVars == <<conversations, translation_history, cookie, now, served, request, reply, upstream, payload>>

threadVars == <<threads, appended>>

builderVars == <<ctx_history, ctx_text, ctx_image, ctx_contents, ctx_pc>>

vars == <<clientVars, appVars, threadVars, builderVars>>

\* ---------------------------------------------------------------- bounds
MaxRetries == 3        \* max_retries is drawn from -1 .. MaxRetries
MaxBaseDelay == 2      \* base_delay is drawn from 1 .. MaxBaseDelay
MaxRequests == 2       \* requests handled in one behaviour of the application
MaxRoles == 2          \* build_conversation_context is given every role sequence up to this length

\* ------------------------------------------------------ program constants
DefaultMaxRetries == 3
DefaultBaseDelay == 1
ChatCap == 20          \* messages kept per conversation
ChatContext == 10      \* messages of history sent upstream
TranslationCap == 10   \* translations kept per session

\* ------------------------------------------------------------------ text
Str(chunk) == <<chunk>>

RECURSIVE LStrip(_)
LStrip(s) == IF s # <<>> /\ Head(s) = " " THEN LStrip(Tail(s)) ELSE s

RECURSIVE RStrip(_)
RStrip(s) == IF s # <<>> /\ s[Len(s)] = " " THEN RStrip(SubSeq(s, 1, Len(s) - 1)) ELSE s

\* str.strip()
Strip(s) == RStrip(LStrip(s))

\* ------------------------------------------------- upstream outcome model
\* What one requests.post(...) call can do: raise, or hand back a response
\* with a status code and a body.  A body either fails to decode as JSON
\* (response.json() raises decode_error), decodes to something that is no
\* object (JSON null), or decodes to an object (a record).
NoObject == [none |-> "none"]

JsonObject(v) == [decode_error |-> "None", is_object |-> TRUE, value |-> v]
JsonNull == [decode_error |-> "None", is_object |-> FALSE, value |-> NoObject]
NotJson(e) == [decode_error |-> e, is_object |-> FALSE, value |-> NoObject]

Response(status, body) == [raises |-> "None", status_code |-> status, body |-> body]
Raises(e) == [raises |-> e, status_code |-> 0, body |-> JsonNull]

Hi == <<"h", "i">>
HiPadded == <<" ", "h", "i", " ">>

WellFormed(content) == JsonObject([choices |-> <<[message |-> [content |-> content]]>>])
MissingChoices == JsonObject([error |-> "x"])
EmptyChoices == JsonObject([choices |-> <<>>])
ChoiceWithoutMessage == JsonObject([choices |-> <<[index |-> "0"]>>])
MessageWithoutContent == JsonObject([choices |-> <<[message |-> [role |-> "assistant"]]>>])

Bodies ==
    { WellFormed(Hi), WellFormed(HiPadded), MissingChoices, EmptyChoices,
      ChoiceWithoutMessage, MessageWithoutContent, JsonNull,
      NotJson("JSONDecodeError"), NotJson("ValueError") }

\* Exception classes and their base classes (requests.exceptions, builtins).
Ancestors ==
    [ Timeout          |-> {"Timeout", "RequestException", "Exception"},
      ReadTimeout      |-> {"ReadTimeout", "Timeout", "RequestException", "Exception"},
      ConnectTimeout   |-> {"ConnectTimeout", "ConnectionError", "Timeout", "RequestException", "Exception"},
      ConnectionError  |-> {"ConnectionError", "RequestException", "Exception"},
      TooManyRedirects |-> {"TooManyRedirects", "RequestException", "Exception"},
      JSONDecodeError  |-> {"JSONDecodeError", "RequestException", "ValueError", "Exception"},
      ValueError       |-> {"ValueError", "Exception"},
      TypeError        |-> {"TypeError", "Exception"},
      KeyError         |-> {"KeyError", "LookupError", "Exception"},
      RuntimeError     |-> {"RuntimeError", "Exception"} ]

PostFaults == {"Timeout", "ReadTimeout", "ConnectTimeout", "ConnectionError",
               "TooManyRedirects", "RuntimeError"}

Statuses == {503, 429, 400, 500, 404}

Outcomes ==
    { Response(200, b) : b \in Bodies }
    \cup { Response(s, JsonNull) : s \in Statuses }
    \cup { Raises(e) : e \in PostFaults }

\* ------------------------------------------- completions of a code block
Return(v) == [how |-> "return", value |-> v, delay |-> 0, exc |-> "None"]
\* SleepContinue sleeping one second whatever the computed delay.
M_SleepContinue(d) == [how |-> "continue", value |-> <<>>, delay |-> 1, exc |-> "None"]

SleepContinue(d) == [how |-> "continue", value |-> <<>>, delay |-> d, exc |-> "None"]
Raise(e) == [how |-> "raise", value |-> <<>>, delay |-> 0, exc |-> e]

\* `except C:` catches an exception of class e
Catches(C, e) == C \in Ancestors[e]

\* =====================================================================
\* Upstream client, chat path: call_manus_llm_api_with_retry
\* =====================================================================
MsgUnexpectedFormat == Str("Error: Unexpected response format from AI.")
MsgNoResponse == Str("Error: No response generated by AI.")
MsgUnavailable == Str("Error: AI service is temporarily unavailable. Please try again in a few moments.")
MsgRateLimit == Str("Error: Rate limit exceeded. Please try again later.")
MsgBadRequest == Str("Error: Invalid request format. Please try again.")
MsgApiReturned(status) == <<"Error: API returned ", ToString(status), ". Please try again.">>
MsgTimedOut == Str("Error: Request timed out. Please try again.")
MsgConnectionFailed == Str("Error: Connection failed. Please check your internet connection.")
MsgNetworkError == Str("Error: Network error occurred.")
MsgUnexpectedError == Str("Error: An unexpected error occurred.")
MsgExhausted == Str("Error: Failed to get response after multiple attempts.")

\* On200 indexing result['choices'][0]['message']['content'] without the
\* membership tests: a missing key raises.
M_On200(body) ==
    IF body.decode_error # "None" THEN Raise(body.decode_error)
    ELSE IF ~body.is_object THEN Raise("TypeError")
    ELSE LET res == body.value IN
         IF "choices" \in DOMAIN res /\ Len(res.choices) > 0
         THEN LET choice == res.choices[1] IN
              IF "message" \in DOMAIN choice /\ "content" \in DOMAIN choice.message
              THEN Return(choice.message.content)
              ELSE Raise("KeyError")
         ELSE Raise("KeyError")

\* if response.status_code == 200: ...
On200(body) ==
    IF body.decode_error # "None" THEN Raise(body.decode_error)      \* response.json()
    ELSE IF ~body.is_object THEN Raise("TypeError")                  \* 'choices' in None
    ELSE LET res == body.value IN
         IF "choices" \in DOMAIN res /\ Len(res.choices) > 0
         THEN LET choice == res.choices[1] IN
              IF "message" \in DOMAIN choice /\ "content" \in DOMAIN choice.message
              THEN Return(choice.message.content)
              ELSE Return(MsgUnexpectedFormat)
         ELSE Return(MsgNoResponse)

\* On503 with the last-attempt test off by one.
M_On503(att, maxr, base) ==
    IF att <= maxr - 1 THEN SleepContinue(base * (2 ^ att)) ELSE Return(MsgUnavailable)

\* elif response.status_code == 503: ...
On503(att, maxr, base) ==
    IF att < maxr - 1 THEN SleepContinue(base * (2 ^ att)) ELSE Return(MsgUnavailable)

\* On429 with the backoff factor of the 503 branch.
M_On429(att, maxr, base) ==
    IF att < maxr - 1 THEN SleepContinue(base * (2 ^ att)) ELSE Return(MsgRateLimit)

\* elif response.status_code == 429: ...
On429(att, maxr, base) ==
    IF att < maxr - 1 THEN SleepContinue(base * (3 ^ att)) ELSE Return(MsgRateLimit)

\* elif response.status_code == 400: ...
On400 == Return(MsgBadRequest)

\* OnOtherStatus classifying the status as a bad request.
M_OnOtherStatus(status) == Return(MsgBadRequest)

\* else: ...
OnOtherStatus(status) == Return(MsgApiReturned(status))

\* TryBody with 400 handled by the retrying 503 branch.
M_TryBody(o, att, maxr, base) ==
    IF o.raises # "None" THEN Raise(o.raises)
    ELSE IF o.status_code = 200 THEN On200(o.body)
    ELSE IF o.status_code \in {503, 400} THEN On503(att, maxr, base)
    ELSE IF o.status_code = 429 THEN On429(att, maxr, base)
    ELSE OnOtherStatus(o.status_code)

\* The body of the try statement of one loop iteration.
TryBody(o, att, maxr, base) ==
    IF o.raises # "None" THEN Raise(o.raises)                        \* requests.post(...)
    ELSE IF o.status_code = 200 THEN On200(o.body)
    ELSE IF o.status_code = 503 THEN On503(att, maxr, base)
    ELSE IF o.status_code = 429 THEN On429(att, maxr, base)
    ELSE IF o.status_code = 400 THEN On400
    ELSE OnOtherStatus(o.status_code)

\* OnTimeout without the retry.
M_OnTimeout(att, maxr, base) == Return(MsgTimedOut)

\* except requests.exceptions.Timeout: ...
OnTimeout(att, maxr, base) ==
    IF att < maxr - 1 THEN SleepContinue(base * (2 ^ att)) ELSE Return(MsgTimedOut)

\* OnConnectionError sleeping and continuing after the last attempt as well.
M_OnConnectionError(att, maxr, base) ==
    IF att < maxr THEN SleepContinue(base * (2 ^ att)) ELSE Return(MsgConnectionFailed)

\* except requests.exceptions.ConnectionError: ...
OnConnectionError(att, maxr, base) ==
    IF att < maxr - 1 THEN SleepContinue(base * (2 ^ att)) ELSE Return(MsgConnectionFailed)

\* ExceptClauses without the final `except Exception` clause.
M_ExceptClauses(e, att, maxr, base) ==
    IF Catches("Timeout", e) THEN OnTimeout(att, maxr, base)
    ELSE IF Catches("ConnectionError", e) THEN OnConnectionError(att, maxr, base)
    ELSE IF Catches("RequestException", e) THEN Return(MsgNetworkError)
    ELSE Raise(e)

\* The except clauses of the loop's try statement, in source order; an
\* exception no clause catches leaves the function.
ExceptClauses(e, att, maxr, base) ==
    IF Catches("Timeout", e) THEN OnTimeout(att, maxr, base)
    ELSE IF Catches("ConnectionError", e) THEN OnConnectionError(att, maxr, base)
    ELSE IF Catches("RequestException", e) THEN Return(MsgNetworkError)
    ELSE IF Catches("Exception", e) THEN Return(MsgUnexpectedError)
    ELSE Raise(e)

\* Iteration going on to the next attempt after a 200 response that is not
\* the last attempt's.
M_Iteration(o, att, maxr, base) ==
    LET body == TryBody(o, att, maxr, base) IN
    IF body.how = "raise" THEN ExceptClauses(body.exc, att, maxr, base)
    ELSE IF o.status_code = 200 /\ att < maxr - 1 THEN SleepContinue(base)
    ELSE body

\* One iteration of `for attempt in range(max_retries)`: try body, then the
\* except clauses if the body raised.
Iteration(o, att, maxr, base) ==
    LET body == TryBody(o, att, maxr, base) IN
    IF body.how = "raise" THEN ExceptClauses(body.exc, att, maxr, base) ELSE body

\* The locals of a running client call, as a record.
NewCall(p, maxr, base) ==
    [path |-> p, max_retries |-> maxr, base_delay |-> base, attempt |-> 0, pc |-> "loop",
     posted |-> <<>>, slept |-> <<>>, result |-> <<>>, escaped |-> "None"]

\* ChatStep entering one more iteration when attempt has reached max_retries.
M_ChatStep(c, o) ==
    IF c.attempt > c.max_retries
    THEN [c EXCEPT !.pc = "returned", !.result = MsgExhausted]
    ELSE LET done == Iteration(o, c.attempt, c.max_retries, c.base_delay)
             c1 == [c EXCEPT !.posted = Append(@, o)] IN
         CASE done.how = "return" ->
                [c1 EXCEPT !.pc = "returned", !.result = done.value]
           [] done.how = "continue" ->
                [c1 EXCEPT !.slept = Append(@, done.delay), !.attempt = @ + 1]
           [] done.how = "raise" ->
                [c1 EXCEPT !.pc = "raised", !.escaped = done.exc]

\* One step of the call: the loop ends (range exhausted) or one iteration
\* runs against upstream outcome o.
ChatStep(c, o) ==
    IF c.attempt >= c.max_retries
    THEN [c EXCEPT !.pc = "returned", !.result = MsgExhausted]
    ELSE LET done == Iteration(o, c.attempt, c.max_retries, c.base_delay)
             c1 == [c EXCEPT !.posted = Append(@, o)] IN
         CASE done.how = "return" ->
                [c1 EXCEPT !.pc = "returned", !.result = done.value]
           [] done.how = "continue" ->
                [c1 EXCEPT !.slept = Append(@, done.delay), !.attempt = @ + 1]
           [] done.how = "raise" ->
                [c1 EXCEPT !.pc = "raised", !.escaped = done.exc]

\* =====================================================================
\* Upstream client, translation path: call_manus_llm_translation_api
\* =====================================================================
TrMsgUnexpectedFormat == Str("Translation error: Unexpected response format.")
TrMsgNoTranslation == Str("Translation error: No translation generated.")
TrMsgApiReturned(status) == <<"Translation error: API returned ", ToString(status)>>
TrMsgTimedOut == Str("Translation error: Request timed out.")
TrMsgNetworkError == Str("Translation error: Network error")
TrMsgUnexpectedError == Str("Translation error: Unexpected error")

\* The body of the try statement (the else branch is read with its three
\* statements indented under it).
TrTryBody(o) ==
    IF o.raises # "None" THEN Raise(o.raises)
    ELSE IF o.status_code = 200 THEN
        LET body == o.body IN
        IF body.decode_error # "None" THEN Raise(body.decode_error)
        ELSE IF ~body.is_object THEN Raise("TypeError")
        ELSE LET res == body.value IN
             IF "choices" \in DOMAIN res /\ Len(res.choices) > 0
             THEN LET choice == res.choices[1] IN
                  IF "message" \in DOMAIN choice /\ "content" \in DOMAIN choice.message
                  THEN Return(Strip(choice.message.content))
                  ELSE Return(TrMsgUnexpectedFormat)
             ELSE Return(TrMsgNoTranslation)
    ELSE Return(TrMsgApiReturned(o.status_code))

TrExceptClauses(e) ==
    IF Catches("Timeout", e) THEN Return(TrMsgTimedOut)
    ELSE IF Catches("RequestException", e) THEN Return(TrMsgNetworkError)
    ELSE IF Catches("Exception", e) THEN Return(TrMsgUnexpectedError)
    ELSE Raise(e)

TranslationCall(o) ==
    LET body == TrTryBody(o) IN
    IF body.how = "raise" THEN TrExceptClauses(body.exc) ELSE body

\* TranslationStep running the attempt loop of the chat client.
M_TranslationStep(c, o) == ChatStep(c, o)

\* The whole function as one step of the call record: one post, no loop.
TranslationStep(c, o) ==
    LET done == TranslationCall(o)
        c1 == [c EXCEPT !.posted = Append(@, o)] IN
    IF done.how = "return"
    THEN [c1 EXCEPT !.pc = "returned", !.result = done.value]
    ELSE [c1 EXCEPT !.pc = "raised", !.escaped = done.exc]

\* =====================================================================
\* SpecClient: one client call against every sequence of upstream outcomes
\* =====================================================================
\* No request thread is running.
Threads == {"t1", "t2"}
NoThread == [pc |-> "idle", role |-> "none", trimmed |-> <<>>]

ThreadsIdle ==
    /\ threads = [t \in Threads |-> NoThread]
    /\ appended = <<>>

\* No call of build_conversation_context is being followed.
BuilderIdle ==
    /\ ctx_history = <<>>
    /\ ctx_text = <<>>
    /\ ctx_image = <<>>
    /\ ctx_contents = <<>>
    /\ ctx_pc = "idle"

\* The application before any request: empty stores, no cookies.
NoSession == 0
Clients == {"c1", "c2"}
NoRequest == [route |-> "none"]

AppIdle ==
    /\ conversations = <<>>
    /\ translation_history = <<>>
    /\ cookie = [c \in Clients |-> NoSession]
    /\ now = 1
    /\ served = 0
    /\ request = NoRequest
    /\ reply = [status |-> 0]
    /\ upstream = <<>>
    /\ payload = <<>>
    /\ ThreadsIdle

CallRecord ==
    [path |-> path, max_retries |-> max_retries, base_delay |-> base_delay,
     attempt |-> attempt, pc |-> pc, posted |-> posted, slept |-> slept,
     result |-> result, escaped |-> escaped]

SetCall(c) ==
    /\ path' = c.path
    /\ max_retries' = c.max_retries
    /\ base_delay' = c.base_delay
    /\ attempt' = c.attempt
    /\ pc' = c.pc
    /\ posted' = c.posted
    /\ slept' = c.slept
    /\ result' = c.result
    /\ escaped' = c.escaped

ClientInit ==
    \E p \in {"chat", "translation"}, m \in -1 .. MaxRetries, b \in 1 .. MaxBaseDelay :
        /\ p = "translation" => (m = DefaultMaxRetries /\ b = DefaultBaseDelay)
        /\ path = p
        /\ max_retries = m
        /\ base_delay = b
        /\ attempt = 0
        /\ pc = "loop"
        /\ posted = <<>>
        /\ slept = <<>>
        /\ result = <<>>
        /\ escaped = "None"
        /\ AppIdle
        /\ BuilderIdle

\* One loop iteration of the chat client: post, classify, maybe sleep.
Attempt ==
    /\ path = "chat" /\ pc = "loop" /\ attempt < max_retries
    /\ \E o \in Outcomes : SetCall(ChatStep(CallRecord, o))
    /\ UNCHANGED <<appVars, threadVars, builderVars>>

\* The for loop runs out: the statement after the loop returns (ChatStep
\* does not read its outcome argument once the range is exhausted).
LoopExit ==
    /\ path = "chat" /\ pc = "loop" /\ attempt >= max_retries
    /\ SetCall(ChatStep(CallRecord, Response(200, JsonNull)))
    /\ UNCHANGED <<appVars, threadVars, builderVars>>

\* The translation client: a single post.
TranslationAttempt ==
    /\ path = "translation" /\ pc = "loop"
    /\ \E o \in Outcomes : SetCall(TranslationStep(CallRecord, o))
    /\ UNCHANGED <<appVars, threadVars, builderVars>>

ClientNext == Attempt \/ LoopExit \/ TranslationAttempt

SpecClient == ClientInit /\ [][ClientNext]_vars

\* A call that can take its next step takes it: the function runs on until
\* it returns (time.sleep and requests.post, with its timeout, come back).
SpecClientFair == SpecClient /\ WF_vars(ClientNext)

\* =====================================================================
\* Session stores: conversations and translation_history
\* =====================================================================
\* d[k] = v on a dict
Put(d, k, v) ==
    IF k \in DOMAIN d THEN [d EXCEPT ![k] = v]
    ELSE [x \in DOMAIN d \cup {k} |-> IF x = k THEN v ELSE d[x]]

\* the Python slice s[-n:], n > 0
LastN(s, n) == IF Len(s) <= n THEN s ELSE SubSeq(s, Len(s) - n + 1, Len(s))

\* truth value of a str-or-None request field (None and '' are both <<>>)
Truthy(s) == s # <<>>

\* get_session_id(): the cookie's session id, minted from the clock when the
\* cookie has none.
GetSessionId(cookies, client, clock) ==
    IF cookies[client] = NoSession
    THEN [session_id |-> clock, cookie |-> [cookies EXCEPT ![client] = clock], now |-> clock + 1]
    ELSE [session_id |-> cookies[client], cookie |-> cookies, now |-> clock]

\* get_conversation_history() / get_translation_history(): the dict after the
\* call (an absent key is created with an empty list).
GetHistory(d, session_id) == IF session_id \notin DOMAIN d THEN Put(d, session_id, <<>>) ELSE d

\* add_to_conversation with the slice of the trimming step taken from the front.
M_AddToConversation(convs, session_id, role, content, image_data, clock) ==
    LET c0 == IF session_id \notin DOMAIN convs THEN Put(convs, session_id, <<>>) ELSE convs
        message == IF Truthy(image_data)
                   THEN [role |-> role, content |-> content, timestamp |-> clock, has_image |-> TRUE]
                   ELSE [role |-> role, content |-> content, timestamp |-> clock]
        c1 == Put(c0, session_id, Append(c0[session_id], message))
    IN  IF Len(c1[session_id]) > ChatCap
        THEN Put(c1, session_id, SubSeq(c1[session_id], 1, ChatCap))
        ELSE c1

\* add_to_conversation(session_id, role, content, image_data)
AddToConversation(convs, session_id, role, content, image_data, clock) ==
    LET c0 == IF session_id \notin DOMAIN convs THEN Put(convs, session_id, <<>>) ELSE convs
        message == IF Truthy(image_data)
                   THEN [role |-> role, content |-> content, timestamp |-> clock, has_image |-> TRUE]
                   ELSE [role |-> role, content |-> content, timestamp |-> clock]
        c1 == Put(c0, session_id, Append(c0[session_id], message))
    IN  IF Len(c1[session_id]) > ChatCap
        THEN Put(c1, session_id, LastN(c1[session_id], ChatCap))
        ELSE c1

\* add_to_translation_history(session_id, original_text, translated_text, target_language)
AddToTranslationHistory(hist, session_id, original_text, translated_text, target_language, clock) ==
    LET h0 == IF session_id \notin DOMAIN hist THEN Put(hist, session_id, <<>>) ELSE hist
        entry == [original |-> original_text, translated |-> translated_text,
                  language |-> target_language, timestamp |-> clock]
        h1 == Put(h0, session_id, Append(h0[session_id], entry))
    IN  IF Len(h1[session_id]) > TranslationCap
        THEN Put(h1, session_id, LastN(h1[session_id], TranslationCap))
        ELSE h1

\* =====================================================================
\* Context builder: build_conversation_context
\* =====================================================================
RECURSIVE HistoryMessages(_)
HistoryMessages(h) ==
    IF h = <<>> THEN <<>>
    ELSE LET message == Head(h) IN
         (IF message.role \in {"user", "model"}
          THEN <<[role |-> IF message.role = "model" THEN "assistant" ELSE "user",
                  content |-> message.content]>>
          ELSE <<>>) \o HistoryMessages(Tail(h))

\* CurrentParts with the image part appended before the text part.
M_CurrentParts(current_text, current_image) ==
    (IF Truthy(current_image)
     THEN <<[type |-> "image_url", image_url |-> [url |-> Str("data:image/jpeg;base64,") \o current_image]]>>
     ELSE <<>>)
    \o (IF Truthy(current_text) THEN <<[type |-> "text", text |-> current_text]>> ELSE <<>>)

\* current_parts: the text part, then the image part
CurrentParts(current_text, current_image) ==
    (IF Truthy(current_text) THEN <<[type |-> "text", text |-> current_text]>> ELSE <<>>)
    \o (IF Truthy(current_image)
        THEN <<[type |-> "image_url", image_url |-> [url |-> Str("data:image/jpeg;base64,") \o current_image]]>>
        ELSE <<>>)

\* BuildConversationContext reading the first 10 messages of the history.
M_BuildConversationContext(history, current_text, current_image) ==
    LET current_parts == CurrentParts(current_text, current_image) IN
    HistoryMessages(SubSeq(history, 1, IF Len(history) < ChatContext THEN Len(history) ELSE ChatContext))
    \o (IF current_parts # <<>>
        THEN <<[role |-> "user", content |-> current_parts]>>
        ELSE <<>>)

\* build_conversation_context(history, current_text, current_image)
BuildConversationContext(history, current_text, current_image) ==
    LET current_parts == CurrentParts(current_text, current_image) IN
    HistoryMessages(LastN(history, ChatContext))
    \o (IF current_parts # <<>>
        THEN <<[role |-> "user", content |-> current_parts]>>
        ELSE <<>>)

\* =====================================================================
\* Routes
\* =====================================================================
SUPPORTED_LANGUAGES ==
    [ en |-> "English", ja |-> "Japanese", es |-> "Spanish", zh |-> "Chinese",
      fr |-> "French", it |-> "Italian", ko |-> "Korean", ar |-> "Arabic",
      hi |-> "Hindi", ru |-> "Russian", id |-> "Indonesian", pt |-> "Portuguese" ]

Hello == <<"h", "e", "l", "l", "o">>
ImageShared == Str("[Image shared]")
Image == Str("QUJD")

\* request fields as they arrive
ChatTexts == {<<>>, <<" ">>, Hello, <<" ">> \o Hello \o <<" ">>}
ChatImages == {<<>>, Image}
TranslateTexts == {<<>>, <<" ", " ">>, <<" ">> \o Hello}
TargetLanguages == {"ja", "xx", "EN"}

\* The whole client call, run against the upstream outcomes of script in
\* order (script[k+1] answers attempt k).
RECURSIVE RunChatClient(_, _)
RunChatClient(c, script) ==
    IF c.pc # "loop" THEN c
    ELSE IF c.attempt >= c.max_retries THEN ChatStep(c, Response(200, JsonNull))
    ELSE RunChatClient(ChatStep(c, script[c.attempt + 1]), script)

\* call_manus_llm_api_with_retry(contents): the defaults of both parameters
CallManusLlmApiWithRetry(script) ==
    RunChatClient(NewCall("chat", DefaultMaxRetries, DefaultBaseDelay), script)

\* upstream outcomes the application is run against
RouteOutcomes == {Response(200, WellFormed(Hi)), Response(503, JsonNull)}

\* the outcome sequences a chat call can consume: each one is used up exactly
Scripts ==
    { s \in UNION { [1 .. n -> RouteOutcomes] : n \in 1 .. DefaultMaxRetries } :
        Len(CallManusLlmApiWithRetry(s \o <<Response(400, JsonNull)>>).posted) = Len(s) }

JsonReply(status, body) == [status |-> status, body |-> body]

\* message_count counting exchanges instead of stored messages.
M_MessageCount(convs, session_id) == Len(convs[session_id]) \div 2

\* 'message_count': len(conversations[session_id])
MessageCount(convs, session_id) == Len(convs[session_id])

\* ChatText without the strip.
M_ChatText(data_text) == data_text

\* text = data.get('text', '').strip()
ChatText(data_text) == Strip(data_text)

\* AddExchange storing nothing when the client returned the unavailable failure.
M_AddExchange(convs, session_id, text, image_data, response_text, clock) ==
    IF response_text = MsgUnavailable THEN convs
    ELSE LET user_content == IF Truthy(text) THEN text ELSE ImageShared
             convs1 == AddToConversation(convs, session_id, "user", user_content, image_data, clock)
         IN  AddToConversation(convs1, session_id, "model", response_text, <<>>, clock + 1)

\* the two add_to_conversation calls that follow the client call: the user
\* message, then the AI response
AddExchange(convs, session_id, text, image_data, response_text, clock) ==
    LET user_content == IF Truthy(text) THEN text ELSE ImageShared
        convs1 == AddToConversation(convs, session_id, "user", user_content, image_data, clock)
    IN  AddToConversation(convs1, session_id, "model", response_text, <<>>, clock + 1)

\* POST /chat-with-context
ChatWithContext(client, data_text, image_data, script) ==
    LET text == ChatText(data_text) IN
    /\ served < MaxRequests
    /\ served' = served + 1
    /\ request' = [route |-> "chat", client |-> client, text |-> data_text, image |-> image_data]
    /\ IF ~Truthy(text) /\ ~Truthy(image_data)
       THEN /\ reply' = JsonReply(400, [error |-> Str("No text or image provided")])
            /\ upstream' = <<>>
            /\ payload' = <<>>
            /\ UNCHANGED <<conversations, translation_history, cookie, now>>
       ELSE LET sid == GetSessionId(cookie, client, now)
                session_id == sid.session_id
                convs0 == GetHistory(conversations, session_id)
                contents == BuildConversationContext(convs0[session_id], text, image_data)
            IN  /\ cookie' = sid.cookie
                /\ UNCHANGED translation_history
                /\ IF contents = <<>>
                   THEN /\ reply' = JsonReply(400, [error |-> Str("No valid content to send")])
                        /\ upstream' = <<>>
                        /\ payload' = <<>>
                        /\ conversations' = convs0
                        /\ now' = sid.now
                   ELSE LET call == CallManusLlmApiWithRetry(script)
                            convs2 == AddExchange(convs0, session_id, text, image_data,
                                                  call.result, sid.now)
                        IN  /\ upstream' = call.posted
                            /\ payload' = contents
                            /\ IF call.pc = "raised"
                               THEN /\ reply' = JsonReply(500, [error |-> Str(call.escaped)])
                                    /\ conversations' = convs0
                                    /\ now' = sid.now
                               ELSE /\ conversations' = convs2
                                    /\ now' = sid.now + 2
                                    /\ reply' = JsonReply(200,
                                            [success |-> TRUE, response |-> call.result,
                                             session_id |-> session_id,
                                             message_count |-> MessageCount(convs2, session_id)])

\* TranslateText testing the text for emptiness before it is stripped.
M_TranslateText(client, data_text, target_language, o) ==
    LET text_to_translate == Strip(data_text) IN
    /\ served < MaxRequests
    /\ served' = served + 1
    /\ request' = [route |-> "translate", client |-> client, text |-> data_text,
                   target_language |-> target_language]
    /\ UNCHANGED conversations
    /\ payload' = <<>>
    /\ IF ~Truthy(data_text)
       THEN /\ reply' = JsonReply(400, [error |-> Str("No text provided for translation")])
            /\ upstream' = <<>>
            /\ UNCHANGED <<translation_history, cookie, now>>
       ELSE IF target_language \notin DOMAIN SUPPORTED_LANGUAGES
       THEN /\ reply' = JsonReply(400, [error |-> <<"Unsupported language: ", target_language>>])
            /\ upstream' = <<>>
            /\ UNCHANGED <<translation_history, cookie, now>>
       ELSE LET sid == GetSessionId(cookie, client, now)
                session_id == sid.session_id
                done == TranslationCall(o)
            IN  /\ cookie' = sid.cookie
                /\ upstream' = <<o>>
                /\ translation_history' =
                       AddToTranslationHistory(translation_history, session_id,
                           text_to_translate, done.value, target_language, sid.now)
                /\ now' = sid.now + 1
                /\ reply' = JsonReply(200,
                        [success |-> TRUE, original_text |-> text_to_translate,
                         translated_text |-> done.value,
                         target_language |-> target_language,
                         language_name |-> SUPPORTED_LANGUAGES[target_language],
                         session_id |-> session_id])

\* POST /translate (build_translation_prompt only shapes the payload of the
\* upstream request; the outcome o of that request is an input here)
TranslateText(client, data_text, target_language, o) ==
    LET text_to_translate == Strip(data_text) IN
    /\ served < MaxRequests
    /\ served' = served + 1
    /\ request' = [route |-> "translate", client |-> client, text |-> data_text,
                   target_language |-> target_language]
    /\ UNCHANGED conversations
    /\ payload' = <<>>
    /\ IF ~Truthy(text_to_translate)
       THEN /\ reply' = JsonReply(400, [error |-> Str("No text provided for translation")])
            /\ upstream' = <<>>
            /\ UNCHANGED <<translation_history, cookie, now>>
       ELSE IF target_language \notin DOMAIN SUPPORTED_LANGUAGES
       THEN /\ reply' = JsonReply(400, [error |-> <<"Unsupported language: ", target_language>>])
            /\ upstream' = <<>>
            /\ UNCHANGED <<translation_history, cookie, now>>
       ELSE LET sid == GetSessionId(cookie, client, now)
                session_id == sid.session_id
                done == TranslationCall(o)
            IN  /\ cookie' = sid.cookie
                /\ upstream' = <<o>>
                /\ IF done.how = "raise"
                   THEN /\ reply' = JsonReply(500, [error |-> Str(done.exc)])
                        /\ now' = sid.now
                        /\ UNCHANGED translation_history
                   ELSE /\ translation_history' =
                              AddToTranslationHistory(translation_history, session_id,
                                  text_to_translate, done.value, target_language, sid.now)
                        /\ now' = sid.now + 1
                        /\ reply' = JsonReply(200,
                                [success |-> TRUE, original_text |-> text_to_translate,
                                 translated_text |-> done.value,
                                 target_language |-> target_language,
                                 language_name |-> SUPPORTED_LANGUAGES[target_language],
                                 session_id |-> session_id])

\* ClearContext emptying the conversation of every session.
M_ClearContext(client) ==
    LET sid == GetSessionId(cookie, client, now) IN
    /\ served < MaxRequests
    /\ served' = served + 1
    /\ request' = [route |-> "clear-context", client |-> client]
    /\ cookie' = sid.cookie
    /\ now' = sid.now
    /\ conversations' = [s \in DOMAIN conversations |-> <<>>]
    /\ reply' = JsonReply(200, [success |-> TRUE, message |-> Str("Conversation context cleared")])
    /\ upstream' = <<>>
    /\ payload' = <<>>
    /\ UNCHANGED translation_history

\* POST /clear-context
ClearContext(client) ==
    LET sid == GetSessionId(cookie, client, now) IN
    /\ served < MaxRequests
    /\ served' = served + 1
    /\ request' = [route |-> "clear-context", client |-> client]
    /\ cookie' = sid.cookie
    /\ now' = sid.now
    /\ conversations' = IF sid.session_id \in DOMAIN conversations
                        THEN Put(conversations, sid.session_id, <<>>)
                        ELSE conversations
    /\ reply' = JsonReply(200, [success |-> TRUE, message |-> Str("Conversation context cleared")])
    /\ upstream' = <<>>
    /\ payload' = <<>>
    /\ UNCHANGED translation_history

\* POST /clear-history
ClearTranslationHistory(client) ==
    LET sid == GetSessionId(cookie, client, now) IN
    /\ served < MaxRequests
    /\ served' = served + 1
    /\ request' = [route |-> "clear-history", client |-> client]
    /\ cookie' = sid.cookie
    /\ now' = sid.now
    /\ translation_history' = IF sid.session_id \in DOMAIN translation_history
                              THEN Put(translation_history, sid.session_id, <<>>)
                              ELSE translation_history
    /\ reply' = JsonReply(200, [success |-> TRUE, message |-> Str("Translation history cleared")])
    /\ upstream' = <<>>
    /\ payload' = <<>>
    /\ UNCHANGED conversations

\* The `def` statements of translation.py that bind the module-level name
\* get_translation_history, in source order, each with its number of
\* parameters: the helper (session_id) and then the /history view function ().
GetTranslationHistoryDefs == <<[kind |-> "helper", params |-> 1], [kind |-> "view", params |-> 0]>>

\* What the name refers to when a request is handled: the last binding.
GetTranslationHistoryBinding == GetTranslationHistoryDefs[Len(GetTranslationHistoryDefs)]

\* The call get_translation_history(session_id): a function of one parameter
\* runs the helper (an absent key is created with an empty list); calling a
\* function of no parameter with one argument raises TypeError.
CallGetTranslationHistory(hist, session_id) ==
    IF GetTranslationHistoryBinding.params = 1
    THEN [how |-> "return", hist |-> GetHistory(hist, session_id),
          value |-> GetHistory(hist, session_id)[session_id], exc |-> "None"]
    ELSE [how |-> "raise", hist |-> hist, value |-> <<>>, exc |-> "TypeError"]

MsgTakesNoArguments ==
    Str("get_translation_history() takes 0 positional arguments but 1 was given")

\* GET /history
TranslationHistoryView(client) ==
    LET sid == GetSessionId(cookie, client, now)
        call == CallGetTranslationHistory(translation_history, sid.session_id)
    IN  /\ served < MaxRequests
        /\ served' = served + 1
        /\ request' = [route |-> "history", client |-> client]
        /\ cookie' = sid.cookie
        /\ now' = sid.now
        /\ upstream' = <<>>
        /\ payload' = <<>>
        /\ UNCHANGED conversations
        /\ IF call.how = "raise"
           THEN /\ reply' = JsonReply(500, [error |-> MsgTakesNoArguments])
                /\ UNCHANGED translation_history
           ELSE /\ translation_history' = call.hist
                /\ reply' = JsonReply(200, [success |-> TRUE, history |-> call.value,
                                            session_id |-> sid.session_id])

\* ---- states the application is started from: client c1 has already had
\* ---- n chat exchanges and m translations, c2 is new.
\* conversations[session_id] after n exchanges of "hello" answered "hi": the
\* messages add_to_conversation appended, the i-th stamped session_id + i,
\* of which the trimming step keeps the last 20
ChatExchanges(session_id, n) ==
    LastN([i \in 1 .. 2 * n |->
              [role |-> IF i % 2 = 1 THEN "user" ELSE "model",
               content |-> IF i % 2 = 1 THEN Hello ELSE Hi,
               timestamp |-> session_id + i]], ChatCap)

\* translation_history[session_id] after m translations of "hello" into "hi"
Translations(session_id, m, first_clock) ==
    LastN([i \in 1 .. m |->
              [original |-> Hello, translated |-> Hi, language |-> "ja",
               timestamp |-> first_clock + i - 1]], TranslationCap)

Warm(n, m) ==
    /\ conversations = [s \in {1} |-> ChatExchanges(1, n)]
    /\ translation_history = [s \in {1} |-> Translations(1, m, 2 + 2 * n)]
    /\ cookie = [c \in Clients |-> IF c = "c1" THEN 1 ELSE NoSession]
    /\ now = 2 + 2 * n + m
    /\ served = 0
    /\ request = NoRequest
    /\ reply = [status |-> 0]
    /\ upstream = <<>>
    /\ payload = <<>>
    /\ ThreadsIdle

CallIdle ==
    /\ path = "chat"
    /\ max_retries = DefaultMaxRetries
    /\ base_delay = DefaultBaseDelay
    /\ attempt = 0
    /\ pc = "loop"
    /\ posted = <<>>
    /\ slept = <<>>
    /\ result = <<>>
    /\ escaped = "None"

Init ==
    /\ CallIdle
    /\ BuilderIdle
    /\ \/ AppIdle
       \/ Warm(ChatCap \div 2 - 1, TranslationCap - 1)
       \/ Warm(ChatCap \div 2, TranslationCap)

Chat ==
    /\ \E client \in Clients, data_text \in ChatTexts, image_data \in ChatImages, script \in Scripts :
           ChatWithContext(client, data_text, image_data, script)
    /\ UNCHANGED <<clientVars, threadVars, builderVars>>

Translate ==
    /\ \E client \in Clients, data_text \in TranslateTexts, target_language \in TargetLanguages,
          o \in RouteOutcomes :
           TranslateText(client, data_text, target_language, o)
    /\ UNCHANGED <<clientVars, threadVars, builderVars>>

Clear ==
    /\ \E client \in Clients : ClearContext(client)
    /\ UNCHANGED <<clientVars, threadVars, builderVars>>

ClearHistory ==
    /\ \E client \in Clients : ClearTranslationHistory(client)
    /\ UNCHANGED <<clientVars, threadVars, builderVars>>

Next == Chat \/ Translate \/ Clear \/ ClearHistory

Spec == Init /\ [][Next]_vars

\* ---- the routes of translation.py on their own
GetTranslationHistory ==
    /\ \E client \in Clients : TranslationHistoryView(client)
    /\ UNCHANGED <<clientVars, threadVars, builderVars>>

TranslationNext == Translate \/ ClearHistory \/ GetTranslationHistory

SpecTranslation == Init /\ [][TranslationNext]_vars

\* =====================================================================
\* SpecThreads: two chat requests of the same session handled by two
\* threads.  Each thread runs chat_with_context from get_conversation_history
\* on; a thread switch can fall between any two of the steps below.
\* =====================================================================
TheSession == 1

At(t, p) == threads[t].pc = p
Goto(t, p) == threads' = [threads EXCEPT ![t].pc = p]

\* get_conversation_history: `if session_id not in conversations`
GetCheck(t) ==
    /\ At(t, "get_check")
    /\ Goto(t, IF TheSession \notin DOMAIN conversations THEN "get_create" ELSE "add_check")
    /\ UNCHANGED <<conversations, now, appended>>

\* `conversations[session_id] = []`, the statement under the membership test
\* of get_conversation_history and of add_to_conversation
Create(t) ==
    /\ At(t, "get_create") \/ At(t, "add_create")
    /\ conversations' = Put(conversations, TheSession, <<>>)
    /\ Goto(t, IF At(t, "get_create") THEN "add_check" ELSE "add_append")
    /\ UNCHANGED <<now, appended>>

\* add_to_conversation: `if session_id not in conversations`
AddCheck(t) ==
    /\ At(t, "add_check")
    /\ Goto(t, IF TheSession \notin DOMAIN conversations THEN "add_create" ELSE "add_append")
    /\ UNCHANGED <<conversations, now, appended>>

\* add_to_conversation: build the message, `conversations[session_id].append(message)`
AddAppend(t) ==
    /\ At(t, "add_append")
    /\ LET message == [role |-> threads[t].role,
                       content |-> IF threads[t].role = "user" THEN Hello ELSE Hi,
                       timestamp |-> now]
       IN  /\ conversations' = Put(conversations, TheSession, Append(conversations[TheSession], message))
           /\ appended' = Append(appended, message)
    /\ now' = now + 1
    /\ Goto(t, "add_len")

\* add_to_conversation: `if len(conversations[session_id]) > 20`; when the
\* test fails the call is over: the next call (role model) or the response.
AddLen(t) ==
    /\ At(t, "add_len")
    /\ threads' = [threads EXCEPT ![t] =
          IF Len(conversations[TheSession]) > ChatCap THEN [@ EXCEPT !.pc = "add_slice"]
          ELSE IF @.role = "user" THEN [@ EXCEPT !.pc = "add_check", !.role = "model"]
          ELSE [@ EXCEPT !.pc = "done"]]
    /\ UNCHANGED <<conversations, now, appended>>

\* add_to_conversation: the right-hand side `conversations[session_id][-20:]`
AddSlice(t) ==
    /\ At(t, "add_slice")
    /\ threads' = [threads EXCEPT ![t].pc = "add_assign",
                                  ![t].trimmed = LastN(conversations[TheSession], ChatCap)]
    /\ UNCHANGED <<conversations, now, appended>>

\* add_to_conversation: the store `conversations[session_id] = ...`
AddAssign(t) ==
    /\ At(t, "add_assign")
    /\ conversations' = Put(conversations, TheSession, threads[t].trimmed)
    /\ threads' = [threads EXCEPT ![t] =
          IF @.role = "user" THEN [@ EXCEPT !.pc = "add_check", !.role = "model", !.trimmed = <<>>]
          ELSE [@ EXCEPT !.pc = "done", !.trimmed = <<>>]]
    /\ UNCHANGED <<now, appended>>

\* The session exists (its cookie was set by an earlier request); its
\* conversation is absent, or holds n earlier exchanges.
ThreadsInit ==
    /\ CallIdle
    /\ \/ /\ conversations = <<>>
          /\ now = 2
       \/ \E n \in {1, ChatCap \div 2 - 1, ChatCap \div 2} :
             /\ conversations = [s \in {TheSession} |-> ChatExchanges(TheSession, n)]
             /\ now = 2 + 2 * n
    /\ translation_history = <<>>
    /\ cookie = [c \in Clients |-> IF c = "c1" THEN TheSession ELSE NoSession]
    /\ served = 0
    /\ request = NoRequest
    /\ reply = [status |-> 0]
    /\ upstream = <<>>
    /\ payload = <<>>
    /\ BuilderIdle
    /\ threads = [t \in Threads |-> [pc |-> "get_check", role |-> "user", trimmed |-> <<>>]]
    /\ appended = <<>>

ThreadsFrame ==
    UNCHANGED <<clientVars, builderVars, translation_history, cookie, served, request, reply, upstream, payload>>

ThreadsNext ==
    \/ \E t \in Threads : GetCheck(t) /\ ThreadsFrame
    \/ \E t \in Threads : Create(t) /\ ThreadsFrame
    \/ \E t \in Threads : AddCheck(t) /\ ThreadsFrame
    \/ \E t \in Threads : AddAppend(t) /\ ThreadsFrame
    \/ \E t \in Threads : AddLen(t) /\ ThreadsFrame
    \/ \E t \in Threads : AddSlice(t) /\ ThreadsFrame
    \/ \E t \in Threads : AddAssign(t) /\ ThreadsFrame

SpecThreads == ThreadsInit /\ [][ThreadsNext]_vars

\* =====================================================================
\* SpecContext: one call of build_conversation_context on a history of
\* stored messages and the two fields of the current turn.
\* =====================================================================
Roles == {"user", "model", "assistant", "system"}

Turn(role, i) == [role |-> role, content |-> <<"turn", ToString(i)>>, timestamp |-> i]

History(roles) == [i \in 1 .. Len(roles) |-> Turn(roles[i], i)]

\* every role sequence of up to MaxRoles turns
RoleSeqs == UNION { [1 .. n -> Roles] : n \in 0 .. MaxRoles }

\* role sequences around the 10 messages the builder reads: the user/model
\* alternation the chat route stores, and one that has assistant turns
LongRoleSeqs ==
    { [i \in 1 .. n |-> IF i % 2 = 1 THEN "user" ELSE "model"] : n \in ChatContext - 1 .. ChatContext + 2 }
    \cup { [i \in 1 .. n |-> IF i % 3 = 1 THEN "user" ELSE IF i % 3 = 2 THEN "model" ELSE "assistant"] :
              n \in ChatContext - 1 .. ChatContext + 2 }

Histories == { History(r) : r \in RoleSeqs \cup LongRoleSeqs }

ContextInit ==
    /\ CallIdle
    /\ AppIdle
    /\ ctx_history \in Histories
    /\ ctx_text \in {<<>>, Hello}
    /\ ctx_image \in {<<>>, Image}
    /\ ctx_contents = <<>>
    /\ ctx_pc = "call"

\* contents = build_conversation_context(history, current_text, current_image)
Build ==
    /\ ctx_pc = "call"
    /\ ctx_contents' = BuildConversationContext(ctx_history, ctx_text, ctx_image)
    /\ ctx_pc' = "returned"
    /\ UNCHANGED <<ctx_history, ctx_text, ctx_image, clientVars, appVars, threadVars>>

ContextNext == Build

SpecContext == ContextInit /\ [][ContextNext]_vars

\* =====================================================================
\* Properties of the upstream client (checked under SpecClient)
\* =====================================================================
IsStatus(o, s) == o.raises = "None" /\ o.status_code = s
AllPosted(s) == \A i \in 1 .. Len(posted) : IsStatus(posted[i], s)

\* C1: when every attempt answers 503, the chat client with max_retries = M >= 1
\* makes exactly M posts, sleeps base_delay * 2^k after attempt k (k = 0 .. M-2),
\* does not sleep after the last attempt and returns the "temporarily
\* unavailable" failure.
C1_Retry503 ==
    (path = "chat" /\ max_retries >= 1 /\ AllPosted(503)) =>
        /\ pc # "raised"
        /\ slept = [k \in 1 .. Len(slept) |-> base_delay * 2 ^ (k - 1)]
        /\ pc = "loop" => Len(posted) < max_retries /\ Len(slept) = Len(posted)
        /\ pc = "returned" =>
              /\ Len(posted) = max_retries
              /\ Len(slept) = max_retries - 1
              /\ result = MsgUnavailable

C1_Witness ==
    /\ path = "chat" /\ max_retries = 3 /\ base_delay = 2 /\ pc = "returned"
    /\ Len(posted) = 3 /\ AllPosted(503)
    /\ slept = <<2, 4>>

\* C2: when every attempt answers 429, the chat client with max_retries = M >= 1
\* makes M posts, sleeps base_delay * 3^k after attempt k, and returns the
\* "rate limit" failure on the last attempt without sleeping after it.
C2_Retry429 ==
    (path = "chat" /\ max_retries >= 1 /\ AllPosted(429)) =>
        /\ pc # "raised"
        /\ slept = [k \in 1 .. Len(slept) |-> base_delay * 3 ^ (k - 1)]
        /\ pc = "loop" => Len(posted) < max_retries /\ Len(slept) = Len(posted)
        /\ pc = "returned" =>
              /\ Len(posted) = max_retries
              /\ Len(slept) = max_retries - 1
              /\ result = MsgRateLimit

C2_Witness ==
    /\ path = "chat" /\ max_retries = 3 /\ base_delay = 2 /\ pc = "returned"
    /\ Len(posted) = 3 /\ AllPosted(429)
    /\ slept = <<2, 6>>

ChatFailureMessages ==
    { MsgUnexpectedFormat, MsgNoResponse, MsgUnavailable, MsgRateLimit, MsgBadRequest,
      MsgTimedOut, MsgConnectionFailed, MsgNetworkError, MsgUnexpectedError, MsgExhausted }
    \cup { MsgApiReturned(s) : s \in Statuses }

TranslationFailureMessages ==
    { TrMsgUnexpectedFormat, TrMsgNoTranslation, TrMsgTimedOut, TrMsgNetworkError,
      TrMsgUnexpectedError }
    \cup { TrMsgApiReturned(s) : s \in Statuses }

\* C3: for every sequence of upstream outcomes and every max_retries >= 0 no
\* exception leaves either client; a call that has not returned can always
\* take a step, and what it returns is the success text or one of the
\* failure messages.
C3_NoEscape ==
    /\ pc # "raised" /\ escaped = "None"
    /\ pc = "loop" => ENABLED ClientNext
    /\ pc = "returned" =>
          \/ result \in (IF path = "chat" THEN ChatFailureMessages ELSE TranslationFailureMessages)
          \/ /\ posted # <<>>
             /\ posted[Len(posted)] \in {Response(200, WellFormed(Hi)), Response(200, WellFormed(HiPadded))}

C3_Witness ==
    /\ path = "chat" /\ pc = "returned" /\ Len(posted) = 2
    /\ posted[1] = Raises("Timeout")
    /\ posted[2] = Response(200, JsonNull)
    /\ result = MsgUnexpectedError

\* C4: on the chat path a 400 response at any attempt index ends the chain at
\* once with the "invalid request" failure: it is the last post, and no sleep
\* follows it.
C4_BadRequestImmediate ==
    path = "chat" =>
        \A i \in 1 .. Len(posted) :
            IsStatus(posted[i], 400) =>
                /\ i = Len(posted)
                /\ pc = "returned"
                /\ result = MsgBadRequest
                /\ Len(slept) = i - 1

C4_Witness ==
    /\ path = "chat" /\ pc = "returned" /\ Len(posted) = 3
    /\ IsStatus(posted[1], 503) /\ IsStatus(posted[2], 429) /\ IsStatus(posted[3], 400)
    /\ result = MsgBadRequest

MalformedBodies == {MissingChoices, EmptyChoices, ChoiceWithoutMessage, MessageWithoutContent}

\* C5: on the chat path a 200 response whose body has no `choices`, an empty
\* choices list, or a first choice without message.content yields the
\* malformed-response failure at once, at whatever attempt index: it is the
\* last post and no sleep follows it.
C5_MalformedImmediate ==
    path = "chat" =>
        \A i \in 1 .. Len(posted) :
            (IsStatus(posted[i], 200) /\ posted[i].body \in MalformedBodies) =>
                /\ i = Len(posted)
                /\ pc = "returned"
                /\ result = (IF posted[i].body \in {MissingChoices, EmptyChoices}
                             THEN MsgNoResponse ELSE MsgUnexpectedFormat)
                /\ Len(slept) = i - 1

C5_Witness ==
    /\ path = "chat" /\ pc = "returned" /\ Len(posted) = 2
    /\ IsStatus(posted[1], 503)
    /\ posted[2] = Response(200, MissingChoices)
    /\ result = MsgNoResponse

\* outcomes the chat client retries
Transient(o) ==
    \/ IsStatus(o, 503)
    \/ IsStatus(o, 429)
    \/ o.raises \in {"Timeout", "ReadTimeout", "ConnectTimeout", "ConnectionError"}

\* ---- C13
TimeoutFaults == {"Timeout", "ReadTimeout", "ConnectTimeout"}

\* C13: on the chat path with max_retries >= 1, a timeout or a connection
\* error at attempt k < max_retries - 1 is followed by a sleep of
\* base_delay * 2^k and then by another attempt; at the last attempt a
\* timeout returns the timed-out failure and a connection error the
\* connection failure, with no sleep after it.
C13_RetryFaults ==
    (path = "chat" /\ max_retries >= 1) =>
        \A i \in 1 .. Len(posted) :
            LET e == posted[i].raises IN
            e \in TimeoutFaults \cup {"ConnectionError"} =>
                IF i < max_retries
                THEN /\ pc # "raised"
                     /\ Len(slept) >= i
                     /\ slept[i] = base_delay * 2 ^ (i - 1)
                     /\ i = Len(posted) => (pc = "loop" /\ attempt = i /\ ENABLED Attempt)
                ELSE /\ i = Len(posted)
                     /\ pc = "returned"
                     /\ Len(slept) = i - 1
                     /\ result = (IF e \in TimeoutFaults THEN MsgTimedOut ELSE MsgConnectionFailed)

C13_Witness ==
    /\ path = "chat" /\ max_retries = 3 /\ base_delay = 2 /\ pc = "returned"
    /\ posted = <<Raises("ReadTimeout"), Raises("ConnectionError"), Raises("ConnectionError")>>
    /\ slept = <<2, 4>>
    /\ result = MsgConnectionFailed

\* ---- C14
\* C14: on the chat path, when attempts 1 .. k-1 all ended in a transient
\* outcome (503, 429, timeout, connection error) and attempt k answers 200
\* with choices[0].message.content, the client returns that content at once:
\* k posts (k <= max_retries), k - 1 sleeps, and no post after it.
C14_SuccessAfterTransients ==
    path = "chat" =>
        \A k \in 1 .. Len(posted) :
            (/\ \A j \in 1 .. k - 1 : Transient(posted[j])
             /\ \E c \in {Hi, HiPadded} : posted[k] = Response(200, WellFormed(c))) =>
                /\ k = Len(posted)
                /\ k <= max_retries
                /\ pc = "returned"
                /\ result = posted[k].body.value.choices[1].message.content
                /\ Len(slept) = k - 1

C14_Witness ==
    /\ path = "chat" /\ max_retries = 3 /\ base_delay = 1 /\ pc = "returned"
    /\ posted = <<Response(429, JsonNull), Raises("Timeout"), Response(200, WellFormed(Hi))>>
    /\ slept = <<1, 2>>
    /\ result = Hi

\* ---- C18
\* C18: on the chat path a response whose status is none of 200, 503, 429,
\* 400 ends the chain at once, at whatever attempt index, with the failure
\* "API returned <status>": it is the last post and no sleep follows it.
C18_OtherStatusImmediate ==
    path = "chat" =>
        \A i \in 1 .. Len(posted) :
            (posted[i].raises = "None" /\ posted[i].status_code \notin {200, 503, 429, 400}) =>
                /\ i = Len(posted)
                /\ pc = "returned"
                /\ result = <<"Error: API returned ", ToString(posted[i].status_code), ". Please try again.">>
                /\ Len(slept) = i - 1

C18_Witness ==
    /\ path = "chat" /\ pc = "returned" /\ Len(posted) = 2
    /\ IsStatus(posted[1], 503) /\ IsStatus(posted[2], 500)
    /\ result = <<"Error: API returned ", "500", ". Please try again.">>
    /\ Len(slept) = 1

\* ---- C16 (checked under SpecClientFair)
Max(a, b) == IF a > b THEN a ELSE b

ChainBounded ==
    /\ pc # "raised"
    /\ Len(posted) <= (IF path = "chat" THEN Max(max_retries, 0) ELSE 1)
    /\ (path = "chat" /\ max_retries = 3) => Len(posted) <= 3
    /\ posted = <<>> => slept = <<>>
    /\ pc = "loop" => Len(slept) = Len(posted)
    /\ (pc = "returned" /\ posted # <<>>) => Len(slept) <= Len(posted) - 1

ChainSequential ==
    /\ \/ posted' = posted
       \/ pc = "loop" /\ \E o \in Outcomes : posted' = Append(posted, o)
    /\ \/ slept' = slept
       \/ Len(slept') = Len(slept) + 1 /\ posted' # posted /\ pc' = "loop"

\* C16: a client call, chat or translation, is one sequential chain of
\* attempts: each step makes at most one post and only while the call is
\* running, a sleep only follows a post that is retried, the chain makes at
\* most max_retries posts (3 with the chat default, 1 on the translation
\* path) and at most posts - 1 sleeps, and it always ends by returning.
C16_OneChain == []ChainBounded /\ [][ChainSequential]_vars /\ <>(pc = "returned")

C16_Witness ==
    /\ path = "chat" /\ max_retries = 3 /\ pc = "returned"
    /\ Len(posted) = 3 /\ Len(slept) = 2
    /\ posted[3] = Raises("ConnectionError")

\* ---- C20
\* C20: the chat client returns the "failed after multiple attempts" failure
\* exactly when the for loop runs out, which it only does when max_retries
\* <= 0, and then with no post and no sleep; with max_retries >= 1 every
\* call returns from inside the loop, the last attempt at the latest.
C20_Exhausted ==
    /\ [](path = "chat" =>
            /\ (pc = "returned" /\ result = MsgExhausted) <=> (pc = "returned" /\ max_retries <= 0)
            /\ (pc = "returned" /\ max_retries <= 0) => (posted = <<>> /\ slept = <<>>)
            /\ (pc = "loop" /\ max_retries >= 1) => attempt < max_retries)
    /\ [][(path = "chat" /\ pc = "loop" /\ attempt >= max_retries) =>
               /\ pc' = "returned"
               /\ result' = MsgExhausted
               /\ posted' = posted
               /\ slept' = slept]_vars

C20_Witness ==
    /\ path = "chat" /\ max_retries = 0 /\ pc = "returned"
    /\ result = MsgExhausted
    /\ posted = <<>> /\ slept = <<>>

\* ---- C21
\* the failure returned when outcome o is the last attempt's
FailureOf(o) ==
    IF IsStatus(o, 503) THEN MsgUnavailable
    ELSE IF IsStatus(o, 429) THEN MsgRateLimit
    ELSE IF o.raises \in TimeoutFaults THEN MsgTimedOut
    ELSE MsgConnectionFailed

\* C21: on the chat path with max_retries >= 1, for every sequence of
\* transient outcomes (503, 429, timeout, connection error) the sleep after
\* attempt k is base_delay * 3^k when that attempt's outcome is 429 and
\* base_delay * 2^k otherwise, whatever the other outcomes are; and when all
\* max_retries attempts are transient the failure returned is the one of the
\* last attempt's outcome, with no sleep after it.
C21_MixedTransients ==
    (path = "chat" /\ max_retries >= 1 /\ \A i \in 1 .. Len(posted) : Transient(posted[i])) =>
        /\ pc # "raised"
        /\ \A k \in 1 .. Len(slept) :
              slept[k] = base_delay * (IF IsStatus(posted[k], 429) THEN 3 ^ (k - 1) ELSE 2 ^ (k - 1))
        /\ pc = "loop" => (Len(slept) = Len(posted) /\ Len(posted) < max_retries)
        /\ pc = "returned" =>
              /\ Len(posted) = max_retries
              /\ Len(slept) = max_retries - 1
              /\ result = FailureOf(posted[max_retries])

C21_Witness ==
    /\ path = "chat" /\ max_retries = 3 /\ base_delay = 2 /\ pc = "returned"
    /\ posted = <<Raises("Timeout"), Response(429, JsonNull), Response(503, JsonNull)>>
    /\ slept = <<2, 6>>
    /\ result = MsgUnavailable

\* =====================================================================
\* Properties of the stores and routes (checked under Spec)
\* =====================================================================
\* the parts of a current-turn message
TextPart(t) == [type |-> "text", text |-> t]
ImagePart(img) == [type |-> "image_url", image_url |-> [url |-> <<"data:image/jpeg;base64,">> \o img]]

Min(a, b) == IF a < b THEN a ELSE b
Stored(d, s) == IF s \in DOMAIN d THEN d[s] ELSE <<>>

\* new holds the last min(cap, Len(old) + k) entries of old followed by k
\* later entries: what is dropped is the front of old, the rest keeps its
\* order, the k added entries come last.
FifoAppend(old, new, k, cap) ==
    /\ Len(new) = Min(cap, Len(old) + k)
    /\ \A i \in 1 .. Len(new) :
          LET j == i + (Len(old) + k - Len(new)) IN
          IF j <= Len(old) THEN new[i] = old[j]
          ELSE \A m \in 1 .. Len(old) : old[m].timestamp < new[i].timestamp
    /\ \A i \in 1 .. Len(new) - 1 : new[i].timestamp < new[i + 1].timestamp

C6_Caps ==
    /\ \A s \in DOMAIN conversations : Len(conversations[s]) <= 20
    /\ \A s \in DOMAIN translation_history : Len(translation_history[s]) <= 10

C6_OneAppend ==
    /\ \A s \in DOMAIN conversations \cup {now} :
          LET new == AddToConversation(conversations, s, "user", Hello, Image, now) IN
          /\ FifoAppend(Stored(conversations, s), new[s], 1, 20)
          /\ new[s][Len(new[s])] =
                 [role |-> "user", content |-> Hello, timestamp |-> now, has_image |-> TRUE]
    /\ \A s \in DOMAIN translation_history \cup {now} :
          LET new == AddToTranslationHistory(translation_history, s, Hello, Hi, "ja", now) IN
          /\ FifoAppend(Stored(translation_history, s), new[s], 1, 10)
          /\ new[s][Len(new[s])] =
                 [original |-> Hello, translated |-> Hi, language |-> "ja", timestamp |-> now]

C6_Step ==
    /\ \A s \in DOMAIN conversations' :
          \/ s \in DOMAIN conversations /\ conversations'[s] = conversations[s]
          \/ conversations'[s] = <<>>
          \/ FifoAppend(Stored(conversations, s), conversations'[s], 2, 20)
    /\ \A s \in DOMAIN translation_history' :
          \/ s \in DOMAIN translation_history /\ translation_history'[s] = translation_history[s]
          \/ translation_history'[s] = <<>>
          \/ FifoAppend(Stored(translation_history, s), translation_history'[s], 1, 10)

\* C6: under sequential request handling every chat history has at most 20
\* entries and every translation history at most 10; an append to a history
\* leaves min(cap, prior length + 1) entries, dropping the oldest entries and
\* keeping the others in order with the newest last; a chat request appends
\* two entries and a translate request one in that way.
C6_BoundedFifo == [](C6_Caps /\ C6_OneAppend) /\ [][C6_Step]_vars

C6_Witness ==
    /\ served = 2
    /\ \E s \in DOMAIN conversations :
          /\ Len(conversations[s]) = 20
          /\ conversations[s][1].timestamp > 3
          /\ conversations[s][20].timestamp = now - 2
    /\ \E s \in DOMAIN translation_history :
          /\ Len(translation_history[s]) = 10
          /\ translation_history[s][1].timestamp > 22
          /\ translation_history[s][10].timestamp = now - 1

\* ---- C8 (translation path, checked under SpecClient)
\* C8 as stated: on the translation path a transient failure is retried as on
\* the chat path, so a failure is returned only after maxRetries (3) posts
\* with a backoff sleep between them.
C8_TranslationRetries ==
    (path = "translation" /\ pc = "returned" /\ \A i \in 1 .. Len(posted) : Transient(posted[i])) =>
        /\ Len(posted) = 3
        /\ Len(slept) = 2

\* C8 as amended: the translation client posts once and never sleeps; a
\* transient outcome of that one post is returned at once as a failure
\* message (503/429: "API returned <status>", timeout: "Request timed out",
\* connection error: "Network error").
C8_TranslationSingleShot ==
    path = "translation" =>
        /\ slept = <<>>
        /\ pc # "raised"
        /\ pc = "loop" => posted = <<>>
        /\ pc = "returned" =>
              /\ Len(posted) = 1
              /\ IsStatus(posted[1], 503) => result = <<"Translation error: API returned ", "503">>
              /\ IsStatus(posted[1], 429) => result = <<"Translation error: API returned ", "429">>
              /\ posted[1].raises \in {"Timeout", "ReadTimeout", "ConnectTimeout"} => result = TrMsgTimedOut
              /\ posted[1].raises = "ConnectionError" => result = TrMsgNetworkError

C8_Witness ==
    /\ path = "translation" /\ pc = "returned"
    /\ posted = <<Response(503, JsonNull)>>
    /\ result = TrMsgApiReturned(503)

\* ---- C9
SupportedCodes == {"en", "ja", "es", "zh", "fr", "it", "ko", "ar", "hi", "ru", "id", "pt"}

RejectedTranslate(r) ==
    /\ r.route = "translate"
    /\ Strip(r.text) = <<>> \/ r.target_language \notin SupportedCodes

\* C9: a translate request whose text is empty after trimming, or whose
\* target_language is no key of the supported-language table, is answered
\* with status 400, makes no upstream call and leaves every translation
\* history (and every other store) as it was.
C9_TranslateRejected ==
    [][ (served' = served + 1 /\ RejectedTranslate(request')) =>
            /\ reply'.status = 400
            /\ upstream' = <<>>
            /\ translation_history' = translation_history
            /\ conversations' = conversations
            /\ cookie' = cookie ]_vars

C9_Witness ==
    /\ served = 2
    /\ request.route = "translate"
    /\ Strip(request.text) = Hello
    /\ request.target_language = "xx"
    /\ reply.status = 400
    /\ \E s \in DOMAIN translation_history : Len(translation_history[s]) = 1

\* ---- C15
RejectedChat(r) ==
    /\ r.route = "chat"
    /\ Strip(r.text) = <<>>
    /\ r.image = <<>>

\* C15: a chat request whose text is empty after trimming and which has no
\* image is answered with status 400: no upstream call is made, no session
\* id is issued, no history entry is created and no history is changed.
C15_ChatRejected ==
    [][ (served' = served + 1 /\ RejectedChat(request')) =>
            /\ reply'.status = 400
            /\ upstream' = <<>>
            /\ payload' = <<>>
            /\ cookie' = cookie
            /\ conversations' = conversations
            /\ translation_history' = translation_history ]_vars

C15_Witness ==
    /\ served = 2
    /\ request.route = "chat"
    /\ request.text = <<" ">>
    /\ request.image = <<>>
    /\ reply.status = 400
    /\ cookie[request.client] = NoSession
    /\ \E s \in DOMAIN conversations : Len(conversations[s]) = 2

\* ---- C17
OthersUnchanged(old, new, s) ==
    \A t \in (DOMAIN old \cup DOMAIN new) \ {s} :
        t \in DOMAIN old /\ t \in DOMAIN new /\ new[t] = old[t]

\* C17: a request of the client whose session is s leaves the conversation
\* and the translation history of every other session as they were;
\* clear-context leaves s with an empty conversation and clear-history with
\* an empty translation history; and a chat request of a session whose
\* conversation is empty sends a payload of one message, the current turn.
C17_SessionsIsolated ==
    [][ served' = served + 1 =>
            LET s == cookie'[request'.client] IN
            /\ OthersUnchanged(conversations, conversations', s)
            /\ OthersUnchanged(translation_history, translation_history', s)
            /\ request'.route = "clear-context" => Stored(conversations', s) = <<>>
            /\ request'.route = "clear-history" => Stored(translation_history', s) = <<>>
            /\ (request'.route = "chat" /\ ~RejectedChat(request')
                  /\ Stored(conversations, cookie[request'.client]) = <<>>) =>
                   /\ Len(payload') = 1
                   /\ payload'[1].role = "user"
                   /\ payload'[1].content =
                          (IF Strip(request'.text) # <<>> THEN <<TextPart(Strip(request'.text))>> ELSE <<>>)
                          \o (IF request'.image # <<>> THEN <<ImagePart(request'.image)>> ELSE <<>>) ]_vars

C17_Witness ==
    /\ served = 2
    /\ request.route = "chat" /\ request.client = "c1"
    /\ cookie["c1"] = 1
    /\ Len(payload) = 1
    /\ Len(conversations[1]) = 2
    /\ 1 \in DOMAIN translation_history
    /\ Len(translation_history[1]) = 10

\* ---- C19
Alternates(h) ==
    /\ Len(h) % 2 = 0
    /\ \A i \in 1 .. Len(h) : h[i].role = (IF i % 2 = 1 THEN "user" ELSE "model")

ValidChat ==
    /\ served' = served + 1
    /\ request'.route = "chat"
    /\ ~RejectedChat(request')

\* C19: under sequential handling a chat request that passes validation is
\* answered with status 200 after one chain of 1 to 3 posts, whose payload
\* was built from the history as it was before the request, and appends two
\* turns to its session: the user turn (the trimmed text, or "[Image
\* shared]") and then the model turn carrying what the chain returned, the
\* reply "hi" or the failure message alike.  The history then has
\* min(20, prior length + 2) turns, and between requests every history
\* alternates user, model, starting with user.
C19_TwoTurns ==
    /\ [](\A s \in DOMAIN conversations : Alternates(conversations[s]))
    /\ [][ ValidChat =>
              LET s == cookie'[request'.client]
                  old == Stored(conversations, s)
                  new == conversations'[s]
                  n == Len(new)
                  last == upstream'[Len(upstream')]
              IN  /\ reply'.status = 200
                  /\ Len(upstream') \in 1 .. 3
                  /\ Len(payload') = Min(10, Len(old)) + 1
                  /\ n = Min(20, Len(old) + 2)
                  /\ FifoAppend(old, new, 2, 20)
                  /\ new[n - 1].role = "user"
                  /\ new[n - 1].content =
                         (IF Strip(request'.text) # <<>> THEN Strip(request'.text) ELSE <<"[Image shared]">>)
                  /\ new[n].role = "model"
                  /\ new[n].content = reply'.body.response
                  /\ reply'.body.response = (IF IsStatus(last, 200) THEN Hi ELSE MsgUnavailable) ]_vars

C19_Witness ==
    /\ served = 2
    /\ request.route = "chat"
    /\ Len(upstream) = 3
    /\ reply.status = 200
    /\ reply.body.response = MsgUnavailable
    /\ Len(conversations[cookie[request.client]]) = 20
    /\ conversations[cookie[request.client]][19].role = "user"
    /\ conversations[cookie[request.client]][20].content = MsgUnavailable
    /\ conversations[cookie[request.client]][1].timestamp > 3

\* ---- C22 (checked under SpecTranslation)
\* C22: a GET /history request is answered with status 200 and success =
\* true, carrying the stored translation history of the client's session (at
\* most 10 entries, oldest first, as the translate requests left it), and
\* leaves that history and every other one as it was.
C22_HistoryReturned ==
    [][ (served' = served + 1 /\ request'.route = "history") =>
            LET s == cookie'[request'.client] IN
            /\ reply'.status = 200
            /\ reply'.body.success = TRUE
            /\ reply'.body.history = Stored(translation_history, s)
            /\ Len(reply'.body.history) <= 10
            /\ Stored(translation_history', s) = Stored(translation_history, s)
            /\ OthersUnchanged(translation_history, translation_history', s) ]_vars

\* What GET /history does instead: status 500 with the TypeError's text, the
\* stores untouched.
HistoryViewFails ==
    [][ (served' = served + 1 /\ request'.route = "history") =>
            /\ reply' = [status |-> 500, body |-> [error |-> MsgTakesNoArguments]]
            /\ translation_history' = translation_history
            /\ conversations' = conversations ]_vars

\* ---- C10
FreshChat(client) == Stored(conversations, cookie[client]) = <<>>

HelloHiExchange ==
    /\ served' = served + 1
    /\ request'.route = "chat"
    /\ FreshChat(request'.client)
    /\ Strip(request'.text) = Hello
    /\ request'.image = <<>>
    /\ upstream' = <<Response(200, WellFormed(Hi))>>

HelloHiHistory(h) ==
    /\ Len(h) = 2
    /\ h[1].role = "user" /\ h[1].content = Hello
    /\ h[2].role = "model" /\ h[2].content = Hi

\* C10 as stated: on a fresh session a chat request "hello" answered 200 "hi"
\* at the first attempt yields success = true, response = "hi",
\* message_count = 1, and leaves the history with exactly the user turn
\* "hello" followed by the assistant turn "hi".
C10_MessageCountOne ==
    [][ HelloHiExchange =>
            /\ reply'.status = 200
            /\ reply'.body.success = TRUE
            /\ reply'.body.response = Hi
            /\ reply'.body.message_count = 1
            /\ HelloHiHistory(conversations'[reply'.body.session_id]) ]_vars

\* C10 as amended: the same exchange yields message_count = 2, the number of
\* stored entries: the user turn "hello" and the reply "hi" stored with role
\* "model".
C10_MessageCountTwo ==
    [][ HelloHiExchange =>
            /\ reply'.status = 200
            /\ reply'.body.success = TRUE
            /\ reply'.body.response = Hi
            /\ reply'.body.message_count = 2
            /\ reply'.body.session_id = cookie'[request'.client]
            /\ HelloHiHistory(conversations'[reply'.body.session_id]) ]_vars

C10_Witness ==
    /\ served = 1
    /\ request = [route |-> "chat", client |-> "c2", text |-> Hello, image |-> <<>>]
    /\ upstream = <<Response(200, WellFormed(Hi))>>
    /\ reply.status = 200
    /\ reply.body.response = Hi
    /\ Len(conversations[cookie["c2"]]) = 2

\* =====================================================================
\* Properties of the context builder (checked under SpecContext)
\* =====================================================================
\* the messages of contents that stem from the history: all but the trailing
\* current-turn message, which is there when a text or an image was given
HistoryPart ==
    IF ctx_text # <<>> \/ ctx_image # <<>>
    THEN SubSeq(ctx_contents, 1, Len(ctx_contents) - 1)
    ELSE ctx_contents

FromHistory(m) == \E j \in 1 .. Len(ctx_history) : m.content = ctx_history[j].content

\* C11: the list build_conversation_context returns ends with exactly one
\* user message for the current turn, whose content is the text part alone
\* (text only), the image part alone, a data URI of type image/jpeg (image
\* only), or the text part followed by the image part (both); when neither
\* is given every returned message stems from the history.
C11_CurrentTurn ==
    ctx_pc = "returned" =>
        LET n == Len(ctx_contents) IN
        /\ \A i \in 1 .. Len(HistoryPart) : FromHistory(ctx_contents[i])
        /\ Len(HistoryPart) <= Min(10, Len(ctx_history))
        /\ (ctx_text # <<>> /\ ctx_image = <<>>) =>
               n >= 1 /\ ctx_contents[n] = [role |-> "user", content |-> <<TextPart(ctx_text)>>]
        /\ (ctx_text = <<>> /\ ctx_image # <<>>) =>
               n >= 1 /\ ctx_contents[n] = [role |-> "user", content |-> <<ImagePart(ctx_image)>>]
        /\ (ctx_text # <<>> /\ ctx_image # <<>>) =>
               n >= 1 /\ ctx_contents[n] =
                            [role |-> "user", content |-> <<TextPart(ctx_text), ImagePart(ctx_image)>>]
        /\ (ctx_text = <<>> /\ ctx_image = <<>>) => HistoryPart = ctx_contents

C11_Witness ==
    /\ ctx_pc = "returned"
    /\ Len(ctx_history) = 12
    /\ ctx_text = Hello /\ ctx_image = Image
    /\ Len(ctx_contents) = 11
    /\ Len(ctx_contents[11].content) = 2
    /\ ctx_contents[11].content[2].image_url.url = <<"data:image/jpeg;base64,", "QUJD">>

\* ---- C12
\* the last min(10, len(history)) turns of the history
LastTurns ==
    LET k == Min(10, Len(ctx_history)) IN
    SubSeq(ctx_history, Len(ctx_history) - k + 1, Len(ctx_history))

Emitted(m) == [role |-> IF m.role = "user" THEN "user" ELSE "assistant", content |-> m.content]

Kept(m) == m.role \in {"user", "model"}

\* C12 as stated: for a history whose roles are user, model or assistant the
\* returned list holds, before the current-turn message, one message per turn
\* of the last min(10, len(history)) turns, in history order, with role user
\* for a user turn, assistant for a model or assistant turn, and the turn's
\* content.
C12_EveryTurnMapped ==
    (ctx_pc = "returned"
       /\ \A j \in 1 .. Len(ctx_history) : ctx_history[j].role \in {"user", "model", "assistant"}) =>
        /\ Len(HistoryPart) = Len(LastTurns)
        /\ \A i \in 1 .. Len(HistoryPart) : HistoryPart[i] = Emitted(LastTurns[i])

\* C12 as amended: the returned list holds, before the current-turn message,
\* one message per turn of role user or model among the last
\* min(10, len(history)) turns, in history order, with role user for a user
\* turn, assistant for a model turn, and the turn's content; a turn of any
\* other role, assistant included, is left out.
C12_UserModelMapped ==
    ctx_pc = "returned" =>
        LET kept == SelectSeq(LastTurns, Kept) IN
        /\ Len(HistoryPart) = Len(kept)
        /\ \A i \in 1 .. Len(kept) : HistoryPart[i] = Emitted(kept[i])

C12_Witness ==
    /\ ctx_pc = "returned"
    /\ Len(ctx_history) = 12
    /\ ctx_history[3].role = "assistant"
    /\ ctx_text = Hello /\ ctx_image = <<>>
    /\ Len(ctx_contents) = 7
    /\ ctx_contents[1] = [role |-> "user", content |-> <<"turn", "4">>]
    /\ ctx_contents[2] = [role |-> "assistant", content |-> <<"turn", "5">>]

\* ---- C7 (checked under SpecThreads)
AllDone == \A t \in Threads : threads[t].pc = "done"

\* C7: when two requests of one session overlap, no update is lost: once both
\* have finished, every message either of them appended (four in all, fewer
\* than the cap, so FIFO eviction drops none of them) is in the session's
\* history.
C7_NoLostUpdate ==
    AllDone =>
        \A i \in 1 .. Len(appended) :
            \E j \in 1 .. Len(conversations[TheSession]) :
                conversations[TheSession][j] = appended[i]

====
